---------------------------- MODULE Spec2Model ----------------------------
(***************************************************************************)
(* A model of lisa/tools/ip.py: the Ip tool, which configures network      *)
(* interfaces of a node by running `ip` command lines on it.               *)
(*                                                                         *)
(* The node is simulated: it keeps the set of existing interfaces, their   *)
(* administrative state and MTU.  Every command the tool issues may        *)
(* succeed or fail (the environment chooses), and a failed command has no  *)
(* effect.  A call of a tool method is one action: it computes the         *)
(* commands issued, in order, with their results (log), the commands       *)
(* registered for replay at boot (boot), and the error that reaches the    *)
(* caller (err).                                                           *)
(***************************************************************************)
EXTENDS Integers, Sequences, FiniteSets, TLC

VARIABLES
    node,       \* the simulated node: [exists, up, mtu, inet, routes]
    op,         \* the method called last
    arg,        \* its arguments
    log,        \* the commands it issued: Seq([cmd, ok, before, stdout, stderr])
    boot,       \* the commands it registered with StartConfiguration.add_command
    err,        \* the error it raised, NoError when it returned
    ret         \* the value it returned, <<>> when none

vars == <<node, op, arg, log, boot, err, ret>>

-----------------------------------------------------------------------------
(* Bounds and value sets *)

Nics == {"eth0", "br0"}
Mtus == {1500, 9000}
Ips == {"10.0.1.4/24"}
Statuses == {"up", "down"}

\* The oracle of a call decides whether the environment lets its i-th
\* command run, for a call of at most k commands.
Oracles(k) == [1..k -> BOOLEAN]

\* "00:0d:3a:c5:13:6f", the example of the source, and "00:11:22"
ValidMac == <<"0","0",":","0","d",":","3","a",":","c","5",":","1","3",":","6","f">>
ShortMac == <<"0","0",":","1","1",":","2","2">>
SampleMacs == {ValidMac, ShortMac}

\* The MAC texts set_mac_address is tried on: up to MaxMacGroups groups, all
\* "0a" but at most one (upper case, not hex, or one character short), joined
\* by one separator but at most one other, followed by a suffix.
MaxMacGroups == 7

MacSeparators == {<<>>, <<":">>, <<"-">>}
MacOddGroups == {<<"0", "A">>, <<"g", "0">>, <<"0">>}
MacSuffixes == {<<>>, <<"\n">>, <<"\n", "x">>, <<"x">>, <<":">>}

RECURSIVE MacText(_, _, _, _, _, _)
MacText(n, sep, oddAt, oddSep, badAt, bad) ==
    IF n = 0 THEN <<>>
    ELSE MacText(n - 1, sep, oddAt, oddSep, badAt, bad)
         \o (IF n = 1 THEN <<>> ELSE IF n - 1 = oddAt THEN oddSep ELSE sep)
         \o (IF n = badAt THEN bad ELSE <<"0", "a">>)

MacInputs ==
    { MacText(n, sep, oddAt, oddSep, badAt, bad) \o suffix :
        n \in 1..MaxMacGroups, sep \in MacSeparators,
        oddAt \in 0..(MaxMacGroups - 1), oddSep \in MacSeparators,
        badAt \in 0..MaxMacGroups, bad \in MacOddGroups,
        suffix \in MacSuffixes }

-----------------------------------------------------------------------------
(* Errors *)

NoError == [type |-> "none", msg |-> <<>>]

\* node.execute / Tool.run with expected_exit_code=0 and a failure message
CommandFailure(msg) == [type |-> "CommandFailure", msg |-> msg]

LisaException(msg) == [type |-> "LisaException", msg |-> msg]

AssertionError(msg) == [type |-> "AssertionError", msg |-> msg]

-----------------------------------------------------------------------------
(* Text *)

HexLower == {"0","1","2","3","4","5","6","7","8","9","a","b","c","d","e","f"}

DigitChars == <<"0","1","2","3","4","5","6","7","8","9">>

Whitespace == {" ", "\n", "\t"}

\* str(n) of a natural number, as a sequence of characters
RECURSIVE Decimal(_)
Decimal(n) ==
    IF n < 10 THEN <<DigitChars[n + 1]>>
    ELSE Decimal(n \div 10) \o <<DigitChars[(n % 10) + 1]>>

DigitValue(c) == CHOOSE d \in 0..9 : DigitChars[d + 1] = c

IsDigit(c) == \E d \in 0..9 : DigitChars[d + 1] = c

RECURSIVE Strip(_)
Strip(s) ==
    IF s = <<>> THEN s
    ELSE IF Head(s) \in Whitespace THEN Strip(Tail(s))
    ELSE IF s[Len(s)] \in Whitespace THEN Strip(SubSeq(s, 1, Len(s) - 1))
    ELSE s

RECURSIVE DigitsValue(_)
DigitsValue(s) ==
    IF s = <<>> THEN 0
    ELSE 10 * DigitsValue(SubSeq(s, 1, Len(s) - 1)) + DigitValue(s[Len(s)])

\* int(s) of Python on the text of a non-negative number: -1 stands for ValueError
PyInt(s) ==
    LET t == Strip(s)
    IN IF t # <<>> /\ \A i \in 1..Len(t) : IsDigit(t[i]) THEN DigitsValue(t) ELSE -1

\* `needle in hay`, on sequences
Contains(hay, needle) ==
    \E i \in 0..(Len(hay) - Len(needle)) :
        \A j \in 1..Len(needle) : hay[i + j] = needle[j]

\* A variant with no backreference: each separator is [-:]? on its own.
MacAddressPattern_NoBackreference(s) ==
    \E seps \in [1..5 -> {<<>>, <<"-">>, <<":">>}] :
        LET start(g) == 2 * g + Len(seps[1]) + Len(seps[2]) * (IF g > 1 THEN 1 ELSE 0)
                        + Len(seps[3]) * (IF g > 2 THEN 1 ELSE 0)
                        + Len(seps[4]) * (IF g > 3 THEN 1 ELSE 0)
                        + Len(seps[5]) * (IF g > 4 THEN 1 ELSE 0)
            end == 12 + Len(seps[1]) + Len(seps[2]) + Len(seps[3])
                      + Len(seps[4]) + Len(seps[5])
        IN /\ Len(s) >= end
           /\ s[1] \in HexLower /\ s[2] \in HexLower
           /\ \A g \in 1..5 :
                /\ s[start(g) + 1] \in HexLower /\ s[start(g) + 2] \in HexLower
                /\ Len(seps[g]) = 1 => s[start(g)] = seps[g][1]
           /\ (Len(s) = end \/ s[end + 1] = "\n")

\* Ip.__mac_address_pattern.match(s):
\*   [0-9a-f]{2}([-:]?)[0-9a-f]{2}(\1[0-9a-f]{2}){4}$   with re.M
\* match() anchors at the start of s; group 1 is the separator, possibly empty;
\* $ under re.M matches at the end of s and before a newline.
MacAddressPattern(s) ==
    \E sep \in {<<>>, <<"-">>, <<":">>} :
        LET w == 2 + Len(sep)
            end == 12 + 5 * Len(sep)
        IN /\ Len(s) >= end
           /\ \A g \in 0..5 : s[g * w + 1] \in HexLower /\ s[g * w + 2] \in HexLower
           /\ \A g \in 1..5 : Len(sep) = 1 => s[(g - 1) * w + 3] = sep[1]
           /\ (Len(s) = end \/ s[end + 1] = "\n")

-----------------------------------------------------------------------------
(* Command lines, as sequences of words *)

LinkSetCmd(nic, status) == <<"ip", "link", "set", nic, status>>

AddrAddCmd(nic, ip) == <<"ip", "addr", "add", ip, "dev", nic>>

SetAddressCmd(nic, mac) == <<"/sbin/ip", "link", "set", nic, "address", mac>>

LinkShowCmd(nic) == <<"ip", "link", "show", nic>>

LinkAddBridgeCmd(name) == <<"ip", "link", "add", name, "type", "bridge">>

LinkDeleteCmd(name) == <<"ip", "link", "delete", name>>

SetMtuCmd(nic, mtu) == <<"ip", "link", "set", "dev", nic, "mtu", Decimal(mtu)>>

SetMasterCmd(child, master) == <<"ip", "link", "set", "dev", child, "master", master>>

TuntapAddCmd(name, user) ==
    <<"ip", "tuntap", "add", name, "mode", "tap", "user", user, "multi_queue">>

WhoamiCmd == <<"whoami">>

CatCmd(path) == <<"cat", path>>

MtuPath(nic) == <<"/sys/class/net/", nic, "/mtu">>

-----------------------------------------------------------------------------
(* Command lines of restart_device and get_default_route_info *)

DevStatusCmd(nic, status) == <<"ip", "link", "set", "dev", nic, status>>

AddrShowCmd(nic) == <<"ip", "addr", "show", nic>>

GrepCmd(pattern) == <<"grep", pattern>>

PidofCmd == <<"pidof", "dhclient">>

KillCmd == <<"kill", "$(pidof dhclient)">>

DhclientReleaseCmd(nic) == <<"dhclient", "-r", nic>>

DhclientCmd(nic) == <<"dhclient", nic>>

SleepCmd == <<"sleep", "1">>

RouteShowCmd == <<"ip", "route", "show">>

RouteAddCmd(route) == <<"ip", "route", "add">> \o route

RouteCmd == <<"ip", "route">>

-----------------------------------------------------------------------------
(* The simulated node: [exists, up, mtu, inet, routes]                       *)
(* exists, up, inet: the interfaces that exist, are administratively up,     *)
(* have an IPv4 address; routes: the lines of the route table.               *)

DefaultRouteLine(nic) == <<"default", "via", "10.57.0.1", "dev", nic>>

IsDefaultLine(line) == Len(line) >= 1 /\ line[1] = "default"

LineVia(line, nic) ==
    \E i \in 1..(Len(line) - 1) : line[i] = "dev" /\ line[i + 1] = nic

HasDefaultRoute(n) == \E i \in 1..Len(n.routes) : IsDefaultLine(n.routes[i])

RoutesWithout(routes, nic) == SelectSeq(routes, LAMBDA l : ~LineVia(l, nic))

\* the lines of a text, one after the other with a newline between them
RECURSIVE Flatten(_)
Flatten(lines) ==
    IF lines = <<>> THEN <<>>
    ELSE IF Len(lines) = 1 THEN lines[1]
    ELSE lines[1] \o <<"\n">> \o Flatten(Tail(lines))

Kind(cmd) ==
    CASE cmd[1] \notin {"ip", "/sbin/ip"} -> cmd[1]
      [] cmd[1] = "/sbin/ip" -> "address"
      [] cmd[2] = "route" -> IF Len(cmd) > 3 THEN "route_add" ELSE "route_show"
      [] cmd[2] = "addr" -> IF cmd[3] = "add" THEN "addr_add" ELSE "addr_show"
      [] cmd[2] = "tuntap" -> "tuntap_add"
      [] cmd[3] = "add" -> "link_add"
      [] cmd[3] = "delete" -> "link_delete"
      [] cmd[3] = "show" -> "link_show"
      [] Len(cmd) \in {5, 6} -> "status"
      [] cmd[6] = "mtu" -> "mtu"
      [] OTHER -> "master"

\* the interface and the state of `ip link set [dev] <nic> <status>`
StatusNic(cmd) == cmd[Len(cmd) - 1]

StatusOf(cmd) == cmd[Len(cmd)]

\* grep <pattern> on the words of stdin; "inet " asks for a word after inet
GrepMatches(stdin, pattern) ==
    IF pattern = "inet "
    THEN \E i \in 1..(Len(stdin) - 1) : stdin[i] = "inet" /\ stdin[i + 1] # "\n"
    ELSE \E i \in 1..Len(stdin) : stdin[i] = pattern

\* Whether the node can carry out cmd at all.
Possible(n, cmd, stdin) ==
    LET k == Kind(cmd)
    IN CASE k = "status" -> StatusNic(cmd) \in n.exists
         [] k \in {"address", "link_delete", "link_show", "addr_show"} ->
                cmd[4] \in n.exists
         [] k = "addr_add" -> cmd[6] \in n.exists
         [] k \in {"link_add", "tuntap_add"} -> cmd[4] \notin n.exists
         [] k = "mtu" -> cmd[5] \in n.exists
         [] k = "master" -> cmd[5] \in n.exists /\ cmd[7] \in n.exists
         [] k = "cat" -> cmd[2][2] \in n.exists
         [] k = "grep" -> GrepMatches(stdin, cmd[2])
         [] k = "dhclient" -> cmd[Len(cmd)] \in n.exists
         [] k = "route_add" -> ~(cmd[4] = "default" /\ HasDefaultRoute(n))
         [] OTHER -> TRUE

\* The node after cmd succeeded.
Effect(n, cmd) ==
    LET k == Kind(cmd)
    IN CASE k = "status" ->
                IF StatusOf(cmd) = "up" THEN [n EXCEPT !.up = @ \cup {StatusNic(cmd)}]
                ELSE [n EXCEPT !.up = @ \ {StatusNic(cmd)},
                               !.routes = RoutesWithout(@, StatusNic(cmd))]
         [] k \in {"link_add", "tuntap_add"} -> [n EXCEPT !.exists = @ \cup {cmd[4]}]
         [] k = "link_delete" ->
                [n EXCEPT !.exists = @ \ {cmd[4]}, !.up = @ \ {cmd[4]},
                          !.inet = @ \ {cmd[4]}, !.routes = RoutesWithout(@, cmd[4])]
         [] k = "mtu" -> [n EXCEPT !.mtu[cmd[5]] = PyInt(cmd[7])]
         [] k = "dhclient" ->
                IF cmd[2] = "-r"
                THEN [n EXCEPT !.inet = @ \ {cmd[3]}, !.routes = RoutesWithout(@, cmd[3])]
                ELSE [n EXCEPT !.inet = @ \cup {cmd[2]},
                               !.routes = IF HasDefaultRoute(n) THEN @
                                          ELSE Append(@, DefaultRouteLine(cmd[2]))]
         [] k = "route_add" -> [n EXCEPT !.routes = Append(@, SubSeq(cmd, 4, Len(cmd)))]
         [] OTHER -> n

\* What cmd prints: fine says whether the environment lets it run at all.
Output(n, cmd, fine) ==
    LET k == Kind(cmd)
    IN IF k = "grep" THEN [stdout |-> <<>>, stderr |-> <<>>]
       ELSE IF ~fine
       THEN [stdout |-> <<>>, stderr |-> <<"Operation", "not", "permitted">>]
       ELSE CASE k \in {"link_show", "addr_show"} ->
                    IF cmd[4] \in n.exists
                    THEN [stdout |->
                            <<"2:", cmd[4], ":", "link/ether", "00:22:48:79:69:b4">>
                            \o (IF k = "addr_show" /\ cmd[4] \in n.inet
                                THEN <<"\n", "inet", "10.0.1.4/24">> ELSE <<>>)
                            \o (IF k = "addr_show"
                                THEN <<"\n", "inet6", "fe80::222:48ff:fe79:69b4/64">>
                                ELSE <<>>),
                          stderr |-> <<>>]
                    ELSE [stdout |-> <<>>,
                          stderr |-> <<"Device", cmd[4], "does", "not", "exist", ".">>]
              [] k = "whoami" -> [stdout |-> <<"user", "\n">>, stderr |-> <<>>]
              [] k = "cat" ->
                    IF Possible(n, cmd, <<>>)
                    THEN [stdout |-> Decimal(n.mtu[cmd[2][2]]) \o <<"\n">>,
                          stderr |-> <<>>]
                    ELSE [stdout |-> <<>>,
                          stderr |-> <<"No", "such", "file">>]
              [] k = "route_show" -> [stdout |-> Flatten(n.routes), stderr |-> <<>>]
              [] OTHER -> [stdout |-> <<>>, stderr |-> <<>>]

-----------------------------------------------------------------------------
(* A call in progress: r = [node, log, boot, err, ret, out, oracle] *)

NoOutput == [stdout |-> <<>>, stderr |-> <<>>]

\* The value of a statement: S holds the one state it leaves.  A method is
\* written as its statements in turn, each bound to the state the one
\* before it left:  Only({ rest(r1) : r1 \in {statement(r)} }).
Only(S) == CHOOSE x \in S : TRUE

Begin(oracle) ==
    [node |-> node, log |-> <<>>, boot |-> <<>>, err |-> NoError, ret |-> <<>>,
     out |-> NoOutput, oracle |-> oracle]

Raised(r) == r.err.type # "none"

Raise(r, e) == IF Raised(r) THEN r ELSE [r EXCEPT !.err = e]

\* The node runs cmd, reading stdin: the oracle of the call says whether the
\* environment lets the command run; grep depends on its input alone.
RunWith(r, cmd, stdin) ==
    Only({ Only({ [r EXCEPT !.node = IF ok THEN Effect(r.node, cmd) ELSE @,
                            !.log = Append(@, [cmd |-> cmd, ok |-> ok,
                                               before |-> r.node,
                                               stdout |-> out.stdout,
                                               stderr |-> out.stderr]),
                            !.out = out]
                  : ok \in {fine /\ Possible(r.node, cmd, stdin)},
                    out \in {Output(r.node, cmd, fine)} })
           : fine \in {r.oracle[Len(r.log) + 1] \/ Kind(cmd) = "grep"} })

\* Tool.run(cmd) / node.execute(cmd) with no expected exit code: the result
\* is kept in out, and a failure raises nothing.
Run(r, cmd) == IF Raised(r) THEN r ELSE RunWith(r, cmd, <<>>)

\* node.execute(cmd, expected_exit_code=0, expected_exit_code_failure_message=msg)
Execute(r, cmd, msg) ==
    Only({ IF Raised(r) \/ r1.log[Len(r1.log)].ok THEN r1
           ELSE Raise(r1, CommandFailure(msg))
           : r1 \in {Run(r, cmd)} })

\* StartConfiguration.add_command(cmd)
AddCommand(r, cmd) ==
    IF Raised(r) THEN r ELSE [r EXCEPT !.boot = Append(@, cmd)]

\* A variant that registers the command before running it.
SetDeviceStatus_RegisterFirst(r, nic, status, persist) ==
    Only({ Execute(r1, LinkSetCmd(nic, status), <<"Could not set", nic, status>>)
           : r1 \in {IF persist THEN AddCommand(r, LinkSetCmd(nic, status)) ELSE r} })

SetDeviceStatus(r, nic, status, persist) ==
    Only({ IF persist THEN AddCommand(r1, LinkSetCmd(nic, status)) ELSE r1
           : r1 \in {Execute(r, LinkSetCmd(nic, status),
                             <<"Could not set", nic, status>>)} })

UpCall(r, nic, persist) == SetDeviceStatus(r, nic, "up", persist)

DownCall(r, nic, persist) == SetDeviceStatus(r, nic, "down", persist)

AddIpv4AddressCall(r, nic, ip, persist) ==
    Only({ IF persist THEN AddCommand(r1, AddrAddCmd(nic, ip)) ELSE r1
           : r1 \in {Execute(r, AddrAddCmd(nic, ip),
                             <<"Could not add address to device", nic>>)} })

\* get_mtu: the call, and the value it returns (r after GetMtuCall)
GetMtuCall(r, nic) ==
    Only({ IF ~Raised(r1) /\ PyInt(r1.out.stdout) < 0
           THEN Raise(r1, [type |-> "ValueError", msg |-> r1.out.stdout])
           ELSE r1
           : r1 \in {Execute(r, CatCmd(MtuPath(nic)),
                             <<"Error on read file", MtuPath(nic)>>)} })

GetMtuValue(r) == PyInt(r.out.stdout)

\* A variant that requires the write command to exit with 0.
SetMtuCall_CheckedWrite(r, nic, mtu) ==
    Only({ Only({ IF Raised(r2) \/ GetMtuValue(r2) = mtu THEN r2
                  ELSE Raise(r2, AssertionError(<<"set mtu failed">>))
                  : r2 \in {GetMtuCall(r1, nic)} })
           : r1 \in {Execute(r, SetMtuCmd(nic, mtu), <<"set mtu failed">>)} })

SetMtuCall(r, nic, mtu) ==
    Only({ Only({ IF Raised(r2) \/ GetMtuValue(r2) = mtu THEN r2
                  ELSE Raise(r2, AssertionError(<<"set mtu failed">>))
                  : r2 \in {GetMtuCall(r1, nic)} })
           : r1 \in {Run(r, SetMtuCmd(nic, mtu))} })

\* try: set-address, finally: up, entered with r1.  The finally block runs
\* whether or not the try block raised; an error of its own replaces the one
\* propagating.
SetAddressThenUp(r1, nic, mac) ==
    Only({ Only({ IF Raised(r3) THEN r3 ELSE [r3 EXCEPT !.err = r2.err]
                  : r3 \in {UpCall([r2 EXCEPT !.err = NoError], nic, FALSE)} })
           : r2 \in {Execute(r1, SetAddressCmd(nic, mac),
                             <<"fail to set mac address", mac, "for nic", nic>>)} })

\* A variant with no finally: up runs only after set-address succeeded.
SetMacAddressCall_NoFinally(r, nic, mac) ==
    IF ~MacAddressPattern(mac)
    THEN Raise(r, LisaException(<<"MAC address", mac, "is invalid">>))
    ELSE UpCall(Execute(DownCall(r, nic, FALSE), SetAddressCmd(nic, mac),
                        <<"fail to set mac address", mac, "for nic", nic>>),
                nic, FALSE)

\* A variant with down inside the try block: up runs after a failed down too.
SetMacAddressCall_DownInTry(r, nic, mac) ==
    IF ~MacAddressPattern(mac)
    THEN Raise(r, LisaException(<<"MAC address", mac, "is invalid">>))
    ELSE SetAddressThenUp(DownCall(r, nic, FALSE), nic, mac)

SetMacAddressCall(r, nic, mac) ==
    IF ~MacAddressPattern(mac)
    THEN Raise(r, LisaException(<<"MAC address", mac, "is invalid">>))
    ELSE Only({ IF Raised(r1) THEN r1 ELSE SetAddressThenUp(r1, nic, mac)
                : r1 \in {DownCall(r, nic, FALSE)} })

\* nic_exists: the call, and the value it returns (r after NicExistsCall)
NicExistsCall(r, nic) == Run(r, LinkShowCmd(nic))

NicExistsValue(r) ==
    ~ \/ (r.out.stderr # <<>> /\ Contains(r.out.stderr, <<"not", "exist">>))
      \/ (r.out.stdout # <<>> /\ Contains(r.out.stdout, <<"not", "exist">>))

\* setup_bridge from `# create bridge` on
CreateBridge(r, name, ip) ==
    UpCall(AddIpv4AddressCall(Execute(r, LinkAddBridgeCmd(name),
                                      <<"Could not create bridge", name>>),
                              name, ip, TRUE),
           name, FALSE)

\* A variant that does not return when the bridge exists.
SetupBridgeCall_NoReturn(r, name, ip) ==
    CreateBridge(NicExistsCall(r, name), name, ip)

SetupBridgeCall(r, name, ip) ==
    Only({ IF NicExistsValue(r1) THEN r1 ELSE CreateBridge(r1, name, ip)
           : r1 \in {NicExistsCall(r, name)} })

\* A variant that deletes without bringing the interface down first.
DeleteInterfaceCall_NoDown(r, name) ==
    Only({ IF ~NicExistsValue(r1) THEN r1
           ELSE Execute(r1, LinkDeleteCmd(name), <<"Could not delete interface", name>>)
           : r1 \in {NicExistsCall(r, name)} })

DeleteInterfaceCall(r, name) ==
    Only({ IF ~NicExistsValue(r1) THEN r1
           ELSE Execute(DownCall(r1, name, FALSE), LinkDeleteCmd(name),
                        <<"Could not delete interface", name>>)
           : r1 \in {NicExistsCall(r, name)} })

SetMasterCall(r, child, master) ==
    Execute(r, SetMasterCmd(child, master),
            <<"Could not set bridge", master, "as master for", child>>)

\* setup_tap from `# create tap` on
CreateTap(r, name, bridge) ==
    Only({ UpCall(SetMasterCall(Execute(r2, TuntapAddCmd(name, Strip(r2.out.stdout)),
                                        <<"Could not create tap", name>>),
                                name, bridge),
                  name, FALSE)
           : r2 \in {Run(r, WhoamiCmd)} })

SetupTapCall(r, name, bridge) ==
    Only({ IF NicExistsValue(r1) THEN r1 ELSE CreateTap(r1, name, bridge)
           : r1 \in {NicExistsCall(r, name)} })

-----------------------------------------------------------------------------
(* get_default_route_info *)

\* The words a route table is printed with; the words of Ipv4Words match
\*   [0-9a-fA-F]{1,3}\.[0-9a-fA-F]{1,3}\.[0-9a-fA-F]{1,3}\.[0-9a-fA-F]{1,3}
\* and AlnumPrefix is what ([a-zA-Z0-9]+) takes of a word.
RouteWords == {"default", "via", "10.57.0.1", "dev", "eth0", "\n"}

Ipv4Words == {"10.57.0.1"}

AlnumPrefix(w) ==
    CASE w = "\n" -> ""
      [] w = "10.57.0.1" -> "10"
      [] OTHER -> w

\* the first index from p on that holds no newline: where \s+ stops
AfterSpace(t, p) ==
    IF \E i \in p..Len(t) : t[i] # "\n"
    THEN CHOOSE i \in p..Len(t) : t[i] # "\n" /\ \A j \in p..(i - 1) : t[j] = "\n"
    ELSE Len(t) + 1

\* Ip.__dev_regex matched at word i of t: the index of the device word, 0 if
\* it does not match there.  Words are a blank apart, which "default via"
\* asks for; \s+ takes that blank and any newlines.
DevRegexAt(t, i) ==
    LET ip == AfterSpace(t, i + 2)
        dev == AfterSpace(t, ip + 1)
        name == AfterSpace(t, dev + 1)
    IN IF /\ i + 1 <= Len(t) /\ t[i] = "default" /\ t[i + 1] = "via"
          /\ ip <= Len(t) /\ t[ip] \in Ipv4Words
          /\ dev <= Len(t) /\ t[dev] = "dev"
          /\ name <= Len(t) /\ AlnumPrefix(t[name]) # ""
       THEN name ELSE 0

\* Ip.__dev_regex.search(t): the leftmost match, as [found, dev, text]
DevRegexSearch(t) ==
    IF \E i \in 1..Len(t) : DevRegexAt(t, i) > 0
    THEN LET i == CHOOSE i \in 1..Len(t) :
                    DevRegexAt(t, i) > 0 /\ \A j \in 1..(i - 1) : DevRegexAt(t, j) = 0
             name == DevRegexAt(t, i)
         IN [found |-> TRUE, dev |-> AlnumPrefix(t[name]),
             text |-> SubSeq(t, i, name - 1) \o <<AlnumPrefix(t[name])>>]
    ELSE [found |-> FALSE, dev |-> "", text |-> <<>>]

\* get_default_route_info from the search of the pattern on
LocateDefaultRoute(r, m) ==
    IF ~m.found
    THEN Raise(r, LisaException(<<"Could not locate default network interface",
                                  "in output:", r.out.stdout>>))
    ELSE IF Raised(r) THEN r ELSE [r EXCEPT !.ret = <<m.dev, m.text>>]

\* result.assert_exit_code()
AssertExitCode(r) ==
    IF r.log[Len(r.log)].ok THEN r ELSE Raise(r, CommandFailure(<<"exit code">>))

\* assert_that(result.stdout).is_not_empty()
AssertNotEmpty(r) ==
    IF r.out.stdout # <<>> THEN r
    ELSE Raise(r, AssertionError(<<"Expected not empty, but was empty.">>))

\* A variant without assert_that(result.stdout).is_not_empty().
GetDefaultRouteInfoCall_NoEmptyCheck(r) ==
    Only({ Only({ LocateDefaultRoute(r2, m) : m \in {DevRegexSearch(r2.out.stdout)} })
           : r2 \in {AssertExitCode(Run(r, RouteCmd))} })

GetDefaultRouteInfoCall(r) ==
    Only({ Only({ LocateDefaultRoute(r3, m) : m \in {DevRegexSearch(r3.out.stdout)} })
           : r3 \in {AssertNotEmpty(AssertExitCode(Run(r, RouteCmd)))} })

-----------------------------------------------------------------------------
(* restart_device: the command line it composes, and the shell that runs it *)

ShOp(v) == [t |-> "op", v |-> v]

ShCmd(words) == [t |-> "cmd", v |-> words]

\* The command line, as the shell reads it: operators and simple commands.
RestartDeviceCmd(nic, run_dhclient, default_route) ==
    <<ShCmd(DevStatusCmd(nic, "down")), ShOp(";"), ShCmd(DevStatusCmd(nic, "up"))>>
    \o (IF run_dhclient
        THEN <<ShOp("&&"), ShOp("("), ShCmd(AddrShowCmd(nic)), ShOp("|"),
               ShCmd(GrepCmd("inet ")), ShOp(")"), ShOp("||"),
               ShOp("("), ShCmd(PidofCmd), ShOp("&&"), ShCmd(KillCmd), ShOp("&&"),
               ShCmd(DhclientReleaseCmd(nic)), ShOp(";"), ShCmd(DhclientCmd(nic)),
               ShOp(")")>>
        ELSE <<>>)
    \o (IF default_route # <<>>
        THEN <<ShOp("&&"), ShCmd(SleepCmd)>>
             \o <<ShOp("&&"), ShCmd(RouteShowCmd), ShOp("|"), ShCmd(GrepCmd("default")),
                  ShOp("||"), ShCmd(RouteAddCmd(default_route))>>
        ELSE <<>>)

\* the simple commands of a command line
NumCmds(toks) == Cardinality({i \in 1..Len(toks) : toks[i].t = "cmd"})

\* the token at pos: an operator, "cmd" or "end"
Tok(toks, pos) ==
    IF pos > Len(toks) THEN "end"
    ELSE IF toks[pos].t = "op" THEN toks[pos].v ELSE "cmd"

\* The shell, by its grammar:
\*   list     : and_or (; and_or)*          the status of the last
\*   and_or   : pipeline ((&& | ||) pipeline)*   left to right, equal precedence
\*   pipeline : command (| command)*        the status of the last
\*   command  : simple command | ( list )
\* Each takes the position to read from, the call so far and whether to run
\* what it reads, and gives [pos, ok, r].
RECURSIVE ShList(_, _, _, _), ShAndOrRest(_, _, _), ShPipelineRest(_, _, _),
          ShCommand(_, _, _, _, _)

ShPipeline(toks, pos, r, exec) ==
    ShPipelineRest(toks, ShCommand(toks, pos, r, exec, <<>>), exec)

ShAndOr(toks, pos, r, exec) ==
    ShAndOrRest(toks, ShPipeline(toks, pos, r, exec), exec)

ShCommand(toks, pos, r, exec, stdin) ==
    IF Tok(toks, pos) = "("
    THEN Only({ [x EXCEPT !.pos = x.pos + 1] : x \in {ShList(toks, pos + 1, r, exec)} })
    ELSE IF exec
    THEN Only({ [pos |-> pos + 1, ok |-> r1.log[Len(r1.log)].ok, r |-> r1]
                : r1 \in {RunWith(r, toks[pos].v, stdin)} })
    ELSE [pos |-> pos + 1, ok |-> TRUE, r |-> r]

ShPipelineRest(toks, x0, exec) ==
    Only({ IF Tok(toks, x.pos) = "|"
           THEN ShPipelineRest(toks,
                               ShCommand(toks, x.pos + 1, x.r, exec, x.r.out.stdout),
                               exec)
           ELSE x
           : x \in {x0} })

ShAndOrRest(toks, x0, exec) ==
    Only({ IF Tok(toks, x.pos) \in {"&&", "||"}
           THEN Only({ Only({ ShAndOrRest(toks,
                                          [y EXCEPT !.ok = IF run THEN y.ok ELSE x.ok],
                                          exec)
                              : y \in {ShPipeline(toks, x.pos + 1, x.r, run)} })
                       : run \in {exec /\ (IF Tok(toks, x.pos) = "&&"
                                           THEN x.ok ELSE ~x.ok)} })
           ELSE x
           : x \in {x0} })

ShList(toks, pos, r, exec) ==
    Only({ IF Tok(toks, x.pos) = ";"
           THEN IF Tok(toks, x.pos + 1) \in {"end", ")"}
                THEN [x EXCEPT !.pos = x.pos + 1]
                ELSE ShList(toks, x.pos + 1, x.r, exec)
           ELSE x
           : x \in {ShAndOr(toks, pos, r, exec)} })

\* node.execute(cmd, shell=True, expected_exit_code=0, ...) of a command line
ExecuteShell(r, toks, msg) ==
    Only({ IF x.ok THEN x.r ELSE Raise(x.r, CommandFailure(msg))
           : x \in {ShList(toks, 1, r, TRUE)} })

RestartDeviceCall(r, nic, run_dhclient, default_route) ==
    Only({ ExecuteShell(r, toks, <<"fail to restart [down then up] the nic", nic>>)
           : toks \in {RestartDeviceCmd(nic, run_dhclient, default_route)} })

-----------------------------------------------------------------------------
(* The actions: one per method of Ip *)

\* The call returns or raises: the state it leaves.
Finish(name, a, call) ==
    \E r \in {call} :
        /\ node' = r.node
        /\ op' = name
        /\ arg' = a
        /\ log' = r.log
        /\ boot' = r.boot
        /\ err' = r.err
        /\ ret' = IF Raised(r) THEN <<>> ELSE r.ret

Up ==
    \E nic \in Nics, persist \in BOOLEAN, o \in Oracles(1) :
        Finish("up", [nic |-> nic, persist |-> persist],
               UpCall(Begin(o), nic, persist))

Down ==
    \E nic \in Nics, persist \in BOOLEAN, o \in Oracles(1) :
        Finish("down", [nic |-> nic, persist |-> persist],
               DownCall(Begin(o), nic, persist))

AddIpv4Address ==
    \E nic \in Nics, ip \in Ips, persist \in BOOLEAN, o \in Oracles(1) :
        Finish("add_ipv4_address", [nic |-> nic, ip |-> ip, persist |-> persist],
               AddIpv4AddressCall(Begin(o), nic, ip, persist))

SetMtu ==
    \E nic \in Nics, mtu \in Mtus, o \in Oracles(2) :
        Finish("set_mtu", [nic |-> nic, mtu |-> mtu],
               SetMtuCall(Begin(o), nic, mtu))

SetMacAddress ==
    \E nic \in Nics, mac \in SampleMacs, o \in Oracles(3) :
        Finish("set_mac_address", [nic |-> nic, mac |-> mac],
               SetMacAddressCall(Begin(o), nic, mac))

SetupBridge ==
    \E name \in Nics, ip \in Ips, o \in Oracles(4) :
        Finish("setup_bridge", [nic |-> name, ip |-> ip],
               SetupBridgeCall(Begin(o), name, ip))

DeleteInterface ==
    \E name \in Nics, o \in Oracles(3) :
        Finish("delete_interface", [nic |-> name],
               DeleteInterfaceCall(Begin(o), name))

SetupTap ==
    \E name \in Nics, bridge \in Nics, o \in Oracles(5) :
        Finish("setup_tap", [nic |-> name, bridge |-> bridge],
               SetupTapCall(Begin(o), name, bridge))

Init ==
    /\ node = [exists |-> {"eth0"}, up |-> {"eth0"}, mtu |-> [n \in Nics |-> 1500],
               inet |-> {"eth0"}, routes |-> <<>>]
    /\ op = "none"
    /\ arg = [nic |-> "eth0"]
    /\ log = <<>>
    /\ boot = <<>>
    /\ err = NoError
    /\ ret = <<>>

Next ==
    \/ Up
    \/ Down
    \/ AddIpv4Address
    \/ SetMtu
    \/ SetMacAddress
    \/ SetupBridge
    \/ DeleteInterface
    \/ SetupTap

Spec == Init /\ [][Next]_vars

-----------------------------------------------------------------------------
(* set_mac_address on every text of MacInputs, on the node of Init *)

InitMac ==
    /\ node = [exists |-> {"eth0"}, up |-> {"eth0"}, mtu |-> [n \in Nics |-> 1500],
               inet |-> {"eth0"}, routes |-> <<>>]
    /\ op = "none"
    /\ arg \in [nic : {"eth0"}, mac : MacInputs]
    /\ log = <<>>
    /\ boot = <<>>
    /\ err = NoError
    /\ ret = <<>>

SetMacAddressOnInput ==
    /\ op = "none"
    /\ \E o \in Oracles(3) :
        Finish("set_mac_address", arg, SetMacAddressCall(Begin(o), arg.nic, arg.mac))

SpecMac == InitMac /\ [][SetMacAddressOnInput]_vars

-----------------------------------------------------------------------------
(* get_default_route_info on every route table of RouteOutputs *)

MaxRouteWords == 5

RECURSIVE SeqsUpTo(_, _)
SeqsUpTo(S, n) ==
    IF n = 0 THEN {<<>>}
    ELSE LET shorter == SeqsUpTo(S, n - 1)
         IN shorter \cup {Append(t, w) : t \in {u \in shorter : Len(u) = n - 1}, w \in S}

RouteOutputs == SeqsUpTo(RouteWords, MaxRouteWords)

InitRoute ==
    /\ node \in [exists : {{"eth0"}}, up : {{"eth0"}}, mtu : {[n \in Nics |-> 1500]},
                 inet : {{"eth0"}},
                 routes : {IF t = <<>> THEN <<>> ELSE <<t>> : t \in RouteOutputs}]
    /\ op = "none"
    /\ arg = [nic |-> "eth0"]
    /\ log = <<>>
    /\ boot = <<>>
    /\ err = NoError
    /\ ret = <<>>

GetDefaultRouteInfo ==
    /\ op = "none"
    /\ \E o \in Oracles(1) :
        Finish("get_default_route_info", arg, GetDefaultRouteInfoCall(Begin(o)))

SpecRoute == InitRoute /\ [][GetDefaultRouteInfo]_vars

-----------------------------------------------------------------------------
(* restart_device on every state of the interface and of the route table *)

RouteArgs == {<<>>, DefaultRouteLine("eth0")}

InitRestart ==
    /\ node \in [exists : {{"eth0"}, {"eth0", "br0"}}, up : SUBSET {"eth0"},
                 mtu : {[n \in Nics |-> 1500]}, inet : SUBSET {"eth0"},
                 routes : {<<>>, <<DefaultRouteLine("eth0")>>, <<DefaultRouteLine("br0")>>}]
    /\ op = "none"
    /\ arg \in [nic : {"eth0"}, run_dhclient : BOOLEAN, default_route : RouteArgs]
    /\ log = <<>>
    /\ boot = <<>>
    /\ err = NoError
    /\ ret = <<>>

RestartDevice ==
    /\ op = "none"
    /\ \E o \in Oracles(NumCmds(RestartDeviceCmd(arg.nic, arg.run_dhclient,
                                                  arg.default_route))) :
            Finish("restart_device", arg,
                   RestartDeviceCall(Begin(o), arg.nic, arg.run_dhclient,
                                     arg.default_route))

SpecRestart == InitRestart /\ [][RestartDevice]_vars

(* Properties of set_mac_address *)

SetAddressMsg == <<"fail to set mac address", arg.mac, "for nic", arg.nic>>

StatusMsg(status) == <<"Could not set", arg.nic, status>>

\* the number of times cmd was issued in the call
Issued(cmd) == Cardinality({i \in 1..Len(log) : log[i].cmd = cmd})

\* the index of the first command of the call that failed, 0 when none did
FirstFailed ==
    IF \A i \in 1..Len(log) : log[i].ok THEN 0
    ELSE CHOOSE i \in 1..Len(log) : ~log[i].ok /\ \A j \in 1..(i - 1) : log[j].ok

\* the error node.execute raises for the i-th command of a set_mac_address call
MacStepError(i) ==
    CASE i = 1 -> CommandFailure(StatusMsg("down"))
      [] i = 2 -> CommandFailure(SetAddressMsg)
      [] OTHER -> CommandFailure(StatusMsg("up"))

\* down succeeded and set-address failed
C1_SetAddressFailed ==
    op = "set_mac_address" /\ Len(log) >= 2 /\ log[1].ok /\ ~log[2].ok

\* C1: when only the set-address step of set_mac_address fails (down before
\* it and up after it succeed), `ip link set <nic> up` is issued exactly once,
\* after the failed step, and the caller gets the set-address failure.
C1_UpOnceAfterFailedSetAddress ==
    C1_SetAddressFailed =>
        /\ log[2].cmd = SetAddressCmd(arg.nic, arg.mac)
        /\ Len(log) = 3
        /\ log[3].cmd = LinkSetCmd(arg.nic, "up")
        /\ Issued(LinkSetCmd(arg.nic, "up")) = 1
        /\ log[3].ok => err = CommandFailure(SetAddressMsg)

C1_Witness ==
    C1_SetAddressFailed /\ Len(log) = 3 /\ log[3].ok /\ err.type = "CommandFailure"

\* a set_mac_address call that passed validation and failed
C2_FailedAfterValidation ==
    op = "set_mac_address" /\ err.type = "CommandFailure"

\* C2 as claimed: every run of set_mac_address that passes validation and
\* fails, whichever step failed (down included), has issued up, and the error
\* is that of the step that failed first.
C2_UpOnEveryFailure ==
    C2_FailedAfterValidation =>
        /\ Issued(LinkSetCmd(arg.nic, "up")) >= 1
        /\ err = MacStepError(FirstFailed)

\* C2 as the code has it: when down fails nothing else is issued and the down
\* failure propagates; when down succeeded, up is issued exactly once, last,
\* after set-address; if up succeeds the interface is up and the error is the
\* set-address failure; if up fails its own failure propagates.
C2_UpAfterSuccessfulDown ==
    C2_FailedAfterValidation =>
        /\ log[1].cmd = LinkSetCmd(arg.nic, "down")
        /\ ~log[1].ok =>
                /\ Len(log) = 1
                /\ err = CommandFailure(StatusMsg("down"))
        /\ log[1].ok =>
                /\ Len(log) = 3
                /\ log[2].cmd = SetAddressCmd(arg.nic, arg.mac)
                /\ log[3].cmd = LinkSetCmd(arg.nic, "up")
                /\ Issued(LinkSetCmd(arg.nic, "up")) = 1
                /\ log[3].ok => /\ arg.nic \in node.up
                                /\ ~log[2].ok
                                /\ err = CommandFailure(SetAddressMsg)
                /\ ~log[3].ok => err = CommandFailure(StatusMsg("up"))

C2_Witness ==
    /\ C2_FailedAfterValidation
    /\ Len(log) = 3
    /\ ~log[2].ok
    /\ ~log[3].ok
    /\ err = CommandFailure(StatusMsg("up"))

-----------------------------------------------------------------------------
(* Properties of the MAC validation *)

HexAnyCase == HexLower \cup {"A", "B", "C", "D", "E", "F"}

\* the text before the first newline of s
FirstLine(s) ==
    IF \E i \in 1..Len(s) : s[i] = "\n"
    THEN SubSeq(s, 1, (CHOOSE i \in 1..Len(s) :
                        s[i] = "\n" /\ \A j \in 1..(i - 1) : s[j] # "\n") - 1)
    ELSE s

\* six groups of two digits of hex joined by the same separator of seps
SixGroups(t, hex, seps) ==
    \/ /\ Len(t) = 17
       /\ t[3] \in seps
       /\ \A i \in {6, 9, 12, 15} : t[i] = t[3]
       /\ \A i \in 1..17 : i % 3 # 0 => t[i] \in hex
    \/ /\ "" \in seps
       /\ Len(t) = 12
       /\ \A i \in 1..12 : t[i] \in hex

Rejected == err.type = "LisaException" /\ log = <<>> /\ boot = <<>>

\* C3 as claimed: every text that is not six groups of two hex digits joined
\* uniformly by ":" or uniformly by "-" is rejected before any command.
C3_OnlyColonOrHyphenForms ==
    (op = "set_mac_address" /\ ~SixGroups(arg.mac, HexAnyCase, {":", "-"})) => Rejected

\* C3 as the code has it: set_mac_address rejects, before any command, every
\* text whose first line is not six groups of two lower-case hex digits joined
\* uniformly by ":", uniformly by "-" or by nothing; every other text reaches
\* the down step.
C3_RejectsUnlessPatternMatches ==
    op = "set_mac_address" =>
        IF SixGroups(FirstLine(arg.mac), HexLower, {":", "-", ""})
        THEN /\ Len(log) >= 1
             /\ log[1].cmd = LinkSetCmd(arg.nic, "down")
             /\ err.type # "LisaException"
        ELSE /\ Rejected
             /\ err = LisaException(<<"MAC address", arg.mac, "is invalid">>)

\* mixed separators are rejected
C3_Witness ==
    /\ op = "set_mac_address"
    /\ Len(arg.mac) = 17
    /\ arg.mac[3] = ":"
    /\ arg.mac[6] = "-"
    /\ \A i \in 1..17 : i % 3 # 0 => arg.mac[i] \in HexLower
    /\ Rejected

-----------------------------------------------------------------------------
(* Properties of set_mtu *)

\* C4: set_mtu issues the write, then reads the MTU back from the attribute
\* file, whatever the write's result; it returns iff the value read back is
\* the one requested, and fails with "set mtu failed" whenever it differs.
C4_SetMtuVerifies ==
    op = "set_mtu" =>
        /\ Len(log) = 2
        /\ log[1].cmd = SetMtuCmd(arg.nic, arg.mtu)
        /\ log[2].cmd = CatCmd(MtuPath(arg.nic))
        /\ err = NoError <=> (log[2].ok /\ node.mtu[arg.nic] = arg.mtu)
        /\ (log[2].ok /\ node.mtu[arg.nic] # arg.mtu) =>
                err = AssertionError(<<"set mtu failed">>)

C4_Witness ==
    /\ op = "set_mtu"
    /\ ~log[1].ok
    /\ log[2].ok
    /\ node.mtu[arg.nic] # arg.mtu
    /\ err.type = "AssertionError"

-----------------------------------------------------------------------------
(* Properties of setup_bridge and delete_interface *)

\* what nic_exists made of the output of a `link show` command
ReportedExisting(e) ==
    ~ \E i \in 1..(Len(e.stderr) - 1) : e.stderr[i] = "not" /\ e.stderr[i + 1] = "exist"

\* the `link show` command was answered by the node
Answered(e) == e.stderr # <<"Operation", "not", "permitted">>

\* the commands of a call, without their results
Cmds == [i \in 1..Len(log) |-> log[i].cmd]

BridgeSteps ==
    <<LinkShowCmd(arg.nic), LinkAddBridgeCmd(arg.nic),
      AddrAddCmd(arg.nic, arg.ip), LinkSetCmd(arg.nic, "up")>>

C6_Call ==
    op = "setup_bridge" =>
        /\ Len(log) >= 1
        /\ log[1].cmd = LinkShowCmd(arg.nic)
        /\ ReportedExisting(log[1]) => Len(log) = 1 /\ err = NoError
        /\ ~ReportedExisting(log[1]) =>
                /\ Len(log) \in 2..4
                /\ Cmds = SubSeq(BridgeSteps, 1, Len(log))
                /\ \A i \in 2..(Len(log) - 1) : log[i].ok
                /\ Len(log) < 4 => ~log[Len(log)].ok
                /\ err = NoError <=> (Len(log) = 4 /\ log[4].ok)

C6_SecondCall ==
    ( /\ op = "setup_bridge" /\ err = NoError /\ Answered(log[1])
      /\ op' = "setup_bridge" /\ arg'.nic = arg.nic /\ Answered(log'[1]) )
    => /\ Len(log') = 1
       /\ err' = NoError

C7_Call ==
    op = "delete_interface" =>
        /\ Len(log) >= 1
        /\ log[1].cmd = LinkShowCmd(arg.nic)
        /\ ~ReportedExisting(log[1]) => Len(log) = 1 /\ err = NoError
        /\ ReportedExisting(log[1]) =>
                /\ Len(log) \in 2..3
                /\ log[2].cmd = LinkSetCmd(arg.nic, "down")
                /\ Len(log) = 3 <=> log[2].ok
                /\ Len(log) = 3 => log[3].cmd = LinkDeleteCmd(arg.nic)
                /\ err = NoError <=> (Len(log) = 3 /\ log[3].ok)
        /\ \A i \in 1..Len(log) :
                log[i].cmd = LinkDeleteCmd(arg.nic) =>
                    i > 1 /\ log[i - 1].cmd = LinkSetCmd(arg.nic, "down") /\ log[i - 1].ok

C7_SecondCall ==
    ( /\ op = "delete_interface" /\ err = NoError
      /\ op' = "delete_interface" /\ arg'.nic = arg.nic /\ Answered(log'[1]) )
    => /\ Len(log') = 1
       /\ err' = NoError

-----------------------------------------------------------------------------
(* Properties of get_default_route_info *)

\* the route command succeeded and printed nothing
C5_EmptyOutput ==
    op = "get_default_route_info" /\ log[1].ok /\ log[1].stdout = <<>>

\* C5 as claimed: on empty output get_default_route_info fails with the error
\* raised when the pattern does not match, "Could not locate default network
\* interface", and not with an assertion error.
C5_EmptyOutputIsNoDefaultRoute ==
    C5_EmptyOutput => err.type = "LisaException"

\* C5 as the code has it: on empty output get_default_route_info fails with
\* the assertion error of the is_not_empty check; "Could not locate default
\* network interface" is raised for output that is not empty and that the
\* pattern does not match, and only for such output.
C5_EmptyOutputIsAssertionError ==
    (op = "get_default_route_info" /\ log[1].ok) =>
        /\ log[1].stdout = <<>> =>
                err = AssertionError(<<"Expected not empty, but was empty.">>)
        /\ (log[1].stdout # <<>> /\ \A i \in 1..Len(log[1].stdout) :
                                        log[1].stdout[i] # "default") =>
                err = LisaException(<<"Could not locate default network interface",
                                      "in output:", log[1].stdout>>)
        /\ err.type = "LisaException" => log[1].stdout # <<>>
        /\ err = NoError =>
                \E i \in 1..Len(log[1].stdout) :
                    /\ log[1].stdout[i] = "default"
                    /\ ret[2][1] = "default"
                    /\ ret[1] = ret[2][Len(ret[2])]

C5_Witness ==
    C5_EmptyOutput /\ err.type = "AssertionError"

-----------------------------------------------------------------------------
(* Properties of restart_device *)

\* C8: restart_device with a default_route runs `ip route add` only when the
\* route table holds no default route at that point (or the route table could
\* not be read), whatever the results of the steps before it.
C8_RouteAddOnlyWithoutDefaultRoute ==
    (op = "restart_device" /\ arg.default_route # <<>>) =>
        \A i \in 1..Len(log) :
            Kind(log[i].cmd) = "route_add" =>
                \/ ~HasDefaultRoute(log[i].before)
                \/ \E j \in 1..(i - 1) : Kind(log[j].cmd) = "route_show" /\ ~log[j].ok

\* C9: restart_device with run_dhclient runs the DHCP branch (pidof, kill,
\* dhclient -r, dhclient) only when the interface has no IPv4 address at that
\* point (or its addresses could not be read), whatever the results of down
\* and up.
C9_DhcpOnlyWithoutIpv4 ==
    (op = "restart_device" /\ arg.run_dhclient) =>
        \A i \in 1..Len(log) :
            Kind(log[i].cmd) \in {"pidof", "kill", "dhclient"} =>
                \/ arg.nic \notin log[i].before.inet
                \/ \E j \in 1..(i - 1) : Kind(log[j].cmd) = "addr_show" /\ ~log[j].ok

-----------------------------------------------------------------------------
(* Properties of up and down *)

IsLinkSet(cmd) == \E n \in Nics, s \in Statuses : cmd = LinkSetCmd(n, s)

\* C10: up and down register a command for replay at boot iff persist is
\* true and the command succeeded; what is registered is the command that
\* was run, once.  The up and down calls inside set_mac_address,
\* setup_bridge, delete_interface and setup_tap register nothing.
C10_PersistOnlyOnSuccess ==
    /\ op \in {"up", "down"} =>
        /\ Len(log) = 1
        /\ log[1].cmd = LinkSetCmd(arg.nic, op)
        /\ boot = IF arg.persist /\ log[1].ok THEN <<log[1].cmd>> ELSE <<>>
    /\ op \in {"set_mac_address", "setup_bridge", "delete_interface", "setup_tap"} =>
        \A i \in 1..Len(boot) : ~IsLinkSet(boot[i])

C10_Witness ==
    /\ op = "up"
    /\ arg.persist
    /\ log[1].ok
    /\ boot = <<LinkSetCmd(arg.nic, "up")>>

=============================================================================
